---- MODULE Spec2Model ----
(***************************************************************************)
(* The client-side tabular views of the threat-intelligence dashboard:     *)
(* each page fetches a feed once per mount and derives, on every render,   *)
(* the filtered, sorted and paginated rows and the summary aggregates from *)
(* its filter, sort and pagination state.                                  *)
(*                                                                         *)
(* A JavaScript string is a tuple of characters (<<"a", "B">>), so that    *)
(* toLowerCase, includes, trim, split and localeCompare are computed, not  *)
(* assumed.  null / undefined is the value Null of the field's own type.   *)
(***************************************************************************)
EXTENDS Integers, Sequences, FiniteSets, TLC

(***************************************************************************)
(* Bounds of the model.                                                    *)
(***************************************************************************)
\* Longest feed drawn from the record pool (the large feeds are fixed).
MaxFeedLen == 2

(***************************************************************************)
(* Strings.                                                                *)
(***************************************************************************)
EmptyStr == <<>>
\* null / undefined in a string-typed field: a one-character tuple whose
\* character no real string of the model contains.
NullStr == <<"#null">>

IsNullStr(s) == s = NullStr

ToLowerChar(c) ==
  IF c = "A" THEN "a" ELSE IF c = "B" THEN "b" ELSE c

\* String.prototype.toLowerCase
toLowerCase(s) == [i \in 1..Len(s) |-> ToLowerChar(s[i])]

\* String.prototype.includes: q occurs in s as a contiguous substring.
includes(s, q) ==
  \E i \in 0..(Len(s) - Len(q)) : SubSeq(s, i + 1, i + Len(q)) = q

RECURSIVE trimStart(_)
trimStart(s) ==
  IF s # <<>> /\ Head(s) = " " THEN trimStart(Tail(s)) ELSE s

RECURSIVE trimEnd(_)
trimEnd(s) ==
  IF s # <<>> /\ s[Len(s)] = " " THEN trimEnd(SubSeq(s, 1, Len(s) - 1)) ELSE s

\* String.prototype.trim
trim(s) == trimEnd(trimStart(s))

\* String.prototype.split(','): the pieces between the commas.
RECURSIVE split(_)
split(s) ==
  IF \A i \in 1..Len(s) : s[i] # ","
  THEN <<s>>
  ELSE LET i == CHOOSE k \in 1..Len(s) :
                  s[k] = "," /\ \A j \in 1..(k - 1) : s[j] # ","
       IN  <<SubSeq(s, 1, i - 1)>> \o split(SubSeq(s, i + 1, Len(s)))

\* Collation rank of a character, case ignored (primary weight).
CharRank(c) ==
  LET l == ToLowerChar(c)
  IN  IF l = " " THEN 0
      ELSE IF l = "," THEN 1
      ELSE IF l = "a" THEN 2
      ELSE IF l = "b" THEN 3
      ELSE 4

IsUpper(c) == c \in {"A", "B"}

Sign(n) == IF n < 0 THEN -1 ELSE IF n > 0 THEN 1 ELSE 0

\* Lexicographic comparison of two strings by a rank of their characters.
RECURSIVE LexCompare(_, _, _)
LexCompare(Rank(_), s, t) ==
  IF s = <<>> /\ t = <<>> THEN 0
  ELSE IF s = <<>> THEN -1
  ELSE IF t = <<>> THEN 1
  ELSE IF Rank(Head(s)) # Rank(Head(t))
       THEN Sign(Rank(Head(s)) - Rank(Head(t)))
       ELSE LexCompare(Rank, Tail(s), Tail(t))

CaseRank(c) == IF IsUpper(c) THEN 1 ELSE 0

\* String.prototype.localeCompare under the default collation: the letters
\* decide first (case ignored); between strings with the same letters the
\* first difference of case decides, lower case first.
localeCompare(s, t) ==
  LET primary == LexCompare(CharRank, s, t)
  IN  IF primary # 0 THEN primary ELSE LexCompare(CaseRank, s, t)

Max(a, b) == IF a >= b THEN a ELSE b
Min(a, b) == IF a <= b THEN a ELSE b

\* Math.ceil(n / d) for n >= 0, d >= 1
Ceil(n, d) == (n + d - 1) \div d

(***************************************************************************)
(* Dates.  A date field of a feed is a string: absent (undefined), one     *)
(* that Date cannot parse, or the literal form YYYY-MM-DD.                 *)
(***************************************************************************)
MissingDate == [kind |-> "missing", y |-> 0, m |-> 0, d |-> 0]
BadDate == [kind |-> "bad", y |-> 0, m |-> 0, d |-> 0]
Ymd(y, m, d) == [kind |-> "ymd", y |-> y, m |-> m, d |-> d]

\* !date : the field is falsy (undefined, null or '').
IsFalsyDate(dt) == dt.kind = "missing"

\* isNaN(new Date(s).getTime())
IsInvalidDate(dt) == dt.kind # "ymd"

\* The day number of a calendar date (days since 1970-01-01), the part of
\* Date.prototype.getTime() that date-only values differ in.
getTime(dt) ==
  LET y   == IF dt.m <= 2 THEN dt.y - 1 ELSE dt.y
      era == y \div 400
      yoe == y - era * 400
      mp  == IF dt.m > 2 THEN dt.m - 3 ELSE dt.m + 9
      doy == (153 * mp + 2) \div 5 + dt.d - 1
      doe == yoe * 365 + yoe \div 4 - yoe \div 100 + doy
  IN  era * 146097 + doe - 719468

\* new Date(): the instant of the render.
Now == Ymd(2024, 6, 15)

\* now.setMonth(now.getMonth() - n), for a day of the month every month has.
setMonthBack(dt, n) ==
  IF dt.m - n >= 1 THEN Ymd(dt.y, dt.m - n, dt.d)
  ELSE Ymd(dt.y - 1, dt.m - n + 12, dt.d)

\* now.setFullYear(now.getFullYear() - 1)
setFullYearBack(dt) == Ymd(dt.y - 1, dt.m, dt.d)

\* new Date(0)
Epoch == Ymd(1970, 1, 1)

(***************************************************************************)
(* Records.  Every page's record is read through the same six fields:      *)
(*   name  the title column (name, project_name, title)                    *)
(*   desc  the second searched text (short_description, quick_summary,     *)
(*         domain, release_url)                                            *)
(*   cat   the categorical column (Category, type, scam_type, platform,    *)
(*         source, framework, data_leaked)                                 *)
(*   tags  the comma-separated list (name_categories, list), nullable      *)
(*   date  the date column (date, breach_date, pubDate, created_at)        *)
(*   num   the numeric column (funds_lost, leak_count, max_bounty,         *)
(*         daysSinceRelease), nullable                                     *)
(* id is the record's position in the feed: its identity as an object.     *)
(***************************************************************************)
\* null in a numeric field.
NullNum == -1

IsNullNum(n) == n = NullNum

Rec(name, desc, cat, tags, date, num) ==
  [id |-> 0, name |-> name, desc |-> desc, cat |-> cat, tags |-> tags,
   date |-> date, num |-> num]

\* The feed's data array: record i is the i-th object of the array.
WithIds(seq) == [i \in 1..Len(seq) |-> [seq[i] EXCEPT !.id = i]]

CatX == <<"a">>
CatY == <<"b">>

RecentDate == Ymd(2024, 5, 1)
MidDate == Ymd(2023, 9, 10)
OldDate == Ymd(2016, 3, 1)

\* The records the small feeds are drawn from.
RecordPool ==
  { Rec(<<"a">>, <<"b">>, CatX, <<"a", ",", " ", "b">>, RecentDate, 5),
    Rec(<<"B">>, <<"a">>, CatY, NullStr, MidDate, NullNum),
    Rec(<<"b", "a">>, <<"b">>, CatX, <<"b">>, OldDate, 1),
    Rec(<<"a", "b">>, <<"A">>, CatY, <<"a">>, MissingDate, 5),
    Rec(<<"A">>, <<"b">>, CatX, NullStr, BadDate, NullNum) }

RECURSIVE SeqsUpTo(_, _)
SeqsUpTo(S, n) ==
  IF n = 0 THEN {<<>>}
  ELSE LET shorter == SeqsUpTo(S, n - 1)
       IN  shorter \cup {Append(q, x) : q \in {t \in shorter : Len(t) = n - 1}, x \in S}

\* A feed of n records of which the first k are recent records of category
\* CatX whose name contains "a"; the others are old records of CatY named "b".
BigFeed(n, k) ==
  [i \in 1..n |->
     IF i <= k
     THEN Rec(<<"a">>, <<"b">>, CatX, <<"a">>, RecentDate, 2)
     ELSE Rec(<<"b">>, <<"b">>, CatY, <<"b">>, OldDate, 3)]

\* Three records whose numeric values are 5, null and 1, in this order.
ExampleFeed ==
  << Rec(<<"a">>, <<"b">>, CatX, <<"a", ",", " ", "b">>, RecentDate, 5),
     Rec(<<"B">>, <<"a">>, CatY, NullStr, MidDate, NullNum),
     Rec(<<"b", "a">>, <<"b">>, CatX, <<"b">>, OldDate, 1) >>

\* Two records of two months of the same year, the newer one first; the
\* older one is one day inside the 3 month range at Now.
NewestFirstFeed ==
  << Rec(<<"a">>, <<"b">>, CatX, <<"a">>, RecentDate, 5),
     Rec(<<"b">>, <<"b">>, CatX, <<"a">>, Ymd(2024, 3, 16), 1) >>

\* Two records whose category contains, or is in another case than, a
\* value the category select offers.
CategoryFeed ==
  << Rec(<<"a">>, <<"b">>, <<"b", "a">>, <<"a">>, RecentDate, 5),
     Rec(<<"b">>, <<"b">>, <<"A">>, <<"a">>, RecentDate, 1) >>

\* A record that lacks its name.
NullNameFeed == << Rec(NullStr, <<"b">>, CatX, <<"a">>, RecentDate, 5) >>

\* The feeds a fetch may return.
Feeds ==
  {WithIds(f) : f \in SeqsUpTo(RecordPool, MaxFeedLen)
                       \cup {BigFeed(26, 5), ExampleFeed, NewestFirstFeed, CategoryFeed}}

(***************************************************************************)
(* The pages.                                                              *)
(***************************************************************************)
Views == {"tools", "vulnerabilities", "web3", "releases", "leaks", "programs", "news"}

ToolsPageSize == 25
VulnerabilitiesPageSize == 20
Web3PageSize == 10
ReleasesItemsPerPage == 20
LeaksItemsPerPage == 10
ProgramsItemsPerPage == 20
NewsItemsPerPage == 10

pageSize(v) ==
  CASE v = "tools" -> ToolsPageSize
    [] v = "vulnerabilities" -> VulnerabilitiesPageSize
    [] v = "web3" -> Web3PageSize
    [] v = "releases" -> ReleasesItemsPerPage
    [] v = "leaks" -> LeaksItemsPerPage
    [] v = "programs" -> ProgramsItemsPerPage
    [] v = "news" -> NewsItemsPerPage

\* The sentinel of a categorical filter that selects every record.
All == <<"a", "l", "l">>

\* useState initial value of the categorical filter.
InitialCatFilter(v) == IF v = "news" THEN EmptyStr ELSE All

\* useState initial value of sortConfig.
InitialSortConfig(v) ==
  CASE v \in {"tools", "vulnerabilities", "programs"} ->
         [key |-> "name", direction |-> "asc"]
    [] v = "web3" -> [key |-> "date", direction |-> "desc"]
    [] v = "releases" -> [key |-> "daysSinceRelease", direction |-> "asc"]
    [] v = "leaks" -> [key |-> "breach_date", direction |-> "desc"]
    [] v = "news" -> [key |-> "pubDate", direction |-> "desc"]

\* The columns whose header carries a sort handler (sortable with onSort).
SortColumns(v) ==
  CASE v = "tools" -> {"name", "Category"}
    [] v = "vulnerabilities" -> {"name", "type", "list"}
    [] v = "web3" -> {"project_name", "scam_type", "name_categories", "funds_lost", "date"}
    [] v = "releases" -> {}
    [] v = "leaks" -> {"name", "breach_date", "data_leaked", "leak_count"}
    [] v = "programs" -> {"name", "platform", "max_bounty"}
    [] v = "news" -> {"source", "pubDate", "title"}

\* row[key]: the field of the record a column key reads.
FieldOf(key) ==
  CASE key \in {"name", "project_name", "title"} -> "name"
    [] key \in {"Category", "type", "scam_type", "data_leaked", "platform", "source"} -> "cat"
    [] key \in {"list", "name_categories"} -> "tags"
    [] key \in {"date", "breach_date", "pubDate"} -> "date"
    [] key \in {"funds_lost", "leak_count", "max_bounty", "daysSinceRelease"} -> "num"

TimeFilters == {"3m", "6m", "1y", "all"}

\* What the user can type into the search box.
Queries == {EmptyStr, <<"a">>, <<"B">>}

\* What the category selects offer besides the sentinel.
CatChoices == {CatX, CatY}

\* The options of the categorical select of page v: its values and its sentinel.
CatOptionsOf(v) == CatChoices \cup {InitialCatFilter(v)}

\* What the date pickers can be set to ('' clears the bound).
DateChoices == {MissingDate, MidDate}

VARIABLES
  view,         \* the page that is mounted
  loading,      \* the page's loading flag
  records,      \* the page's record set (exploits, tools, dataLeaks, ...)
  searchQuery,  \* the free-text filter
  catFilter,    \* selectedCategory / selectedType / typeFilter / platformFilter / ...
  tagFilter,    \* categoryFilter of the Web3 page
  timeFilter,   \* timeFilter of the Web3 page
  startDate,    \* lower date bound of the releases and leaks pages
  endDate,      \* upper date bound of the releases and leaks pages
  sortConfig,   \* the active sort key and direction
  currentPage,  \* the page of the pagination window
  nameClicks,   \* history: the sort clicks since mount (see HandleSortChange)
  now,          \* the browser's clock: the date new Date() yields
  crashed,      \* the record set holds undefined and the render has thrown
  fetchOutcome, \* history: how the mount effect's fetch settled
  proxy,        \* the edge proxy: its env, the request it serves, its answer
  cve,          \* the CVE page: its state and its requests in flight
  home          \* the home dashboard: onboarding, loader, localStorage

\* The components beside the mounted list page.
otherVars == <<proxy, cve, home>>

\* What the handlers of a rendered page leave alone.
restVars == <<now, crashed, fetchOutcome, otherVars>>

vars == <<view, loading, records, searchQuery, catFilter, tagFilter, timeFilter,
          startDate, endDate, sortConfig, currentPage, nameClicks, restVars>>

(***************************************************************************)
(* Filtering.                                                              *)
(***************************************************************************)
\* s?.toLowerCase().includes(q): undefined (falsy) for a null field.
optIncludes(s, q) == ~IsNullStr(s) /\ includes(toLowerCase(s), q)

\* The fields the search box of page v looks into, in the order of the code.
SearchFields(v) ==
  CASE v \in {"tools", "vulnerabilities", "releases"} -> <<"name", "desc">>
    [] v \in {"web3", "leaks"} -> <<"name", "desc", "cat">>
    [] v = "programs" -> <<"name">>
    [] v = "news" -> <<"name", "cat">>

\* A tools filter whose search looks into the name only.
getFilteredTools_NameOnly ==
  LET Match(tool) ==
        /\ catFilter = All \/ tool.cat = catFilter
        /\ \/ searchQuery = EmptyStr
           \/ includes(toLowerCase(tool.name), toLowerCase(searchQuery))
  IN  SelectSeq(records, Match)

\* ToolsPage.getFilteredTools
getFilteredTools ==
  LET Match(tool) ==
        LET categoryMatch == catFilter = All \/ tool.cat = catFilter
            searchMatch ==
              \/ searchQuery = EmptyStr
              \/ includes(toLowerCase(tool.name), toLowerCase(searchQuery))
              \/ includes(toLowerCase(tool.desc), toLowerCase(searchQuery))
        IN  categoryMatch /\ searchMatch
  IN  SelectSeq(records, Match)

\* VulnerabilitiesPage.getFilteredVulnerabilities
getFilteredVulnerabilities ==
  LET Match(vuln) ==
        LET typeMatch == catFilter = All \/ vuln.cat = catFilter
            searchMatch ==
              \/ searchQuery = EmptyStr
              \/ includes(toLowerCase(vuln.name), toLowerCase(searchQuery))
              \/ includes(toLowerCase(vuln.desc), toLowerCase(searchQuery))
        IN  typeMatch /\ searchMatch
  IN  SelectSeq(records, Match)

\* Web3ThreatsPage.getFilteredData.getStartDate
getStartDate(tf) ==
  CASE tf = "3m" -> setMonthBack(now, 3)
    [] tf = "6m" -> setMonthBack(now, 6)
    [] tf = "1y" -> setFullYearBack(now)
    [] OTHER -> Epoch

\* Web3ThreatsPage.getFilteredData: the records of the selected time range.
getFilteredData ==
  LET startDate0 == getStartDate(timeFilter)
      Match(exploit) ==
        IF IsFalsyDate(exploit.date) THEN FALSE
        ELSE IF exploit.date.kind = "ymd" /\ exploit.date.y < 2015 THEN FALSE
        ELSE IF IsInvalidDate(exploit.date) THEN FALSE
        ELSE getTime(exploit.date) >= getTime(startDate0)
  IN  IF Len(records) = 0 THEN <<>> ELSE SelectSeq(records, Match)

filteredExploits == getFilteredData

searchFilteredExploits ==
  LET Match(exploit) ==
        IF trim(searchQuery) = EmptyStr THEN TRUE
        ELSE LET query == toLowerCase(searchQuery)
             IN  \/ optIncludes(exploit.name, query)
                 \/ optIncludes(exploit.desc, query)
                 \/ optIncludes(exploit.cat, query)
  IN  SelectSeq(filteredExploits, Match)

typeFilteredExploits ==
  LET Match(exploit) == IF catFilter = All THEN TRUE ELSE exploit.cat = catFilter
  IN  SelectSeq(searchFilteredExploits, Match)

categoryFilteredExploits ==
  LET Match(exploit) ==
        IF tagFilter = All THEN TRUE
        ELSE /\ ~IsNullStr(exploit.tags)
             /\ LET parts == split(exploit.tags)
                IN  \E i \in 1..Len(parts) : trim(parts[i]) = tagFilter
  IN  SelectSeq(typeFilteredExploits, Match)

\* projectFilter is never set by any control: it stays 'all'.
projectFilteredExploits == categoryFilteredExploits

\* ReleasePage.normalizeRelease: created_at defaults to the load instant and
\* daysSinceRelease is derived from it (null when it cannot be parsed).
normalizeRelease(item) ==
  LET createdAt == IF item.date.kind = "missing" THEN now ELSE item.date
  IN  [item EXCEPT !.date = createdAt,
                   !.num = IF IsInvalidDate(createdAt) THEN NullNum
                           ELSE getTime(now) - getTime(createdAt)]

\* new Date(a) >= new Date(bound): false when either side is invalid.
dateAtLeast(a, bound) ==
  ~IsInvalidDate(a) /\ ~IsInvalidDate(bound) /\ getTime(a) >= getTime(bound)

dateAtMost(a, bound) ==
  ~IsInvalidDate(a) /\ ~IsInvalidDate(bound) /\ getTime(a) <= getTime(bound)

\* ReleasePage.filteredData (no query of the model is four digits, so the
\* year match of the search never holds).
releasesFilteredData ==
  LET Match(framework) ==
        LET matchesSearch ==
              \/ searchQuery = EmptyStr
              \/ (framework.name # EmptyStr /\
                  includes(toLowerCase(framework.name), toLowerCase(searchQuery)))
              \/ (framework.desc # EmptyStr /\
                  includes(toLowerCase(framework.desc), toLowerCase(searchQuery)))
            searchYearMatch == FALSE
            matchesFramework == catFilter = All \/ framework.cat = catFilter
            matchesDate ==
              /\ (~IsFalsyDate(startDate) => dateAtLeast(framework.date, startDate))
              /\ (~IsFalsyDate(endDate) => dateAtMost(framework.date, endDate))
        IN  (matchesSearch \/ searchYearMatch) /\ matchesFramework /\ matchesDate
  IN  SelectSeq(records, Match)

\* DataLeaksPage: the filter steps of the "Apply filters" effect.
leaksFilterResults ==
  LET Search(leak) ==
        searchQuery # EmptyStr =>
          \/ includes(toLowerCase(leak.name), toLowerCase(searchQuery))
          \/ includes(toLowerCase(leak.desc), toLowerCase(searchQuery))
          \/ includes(toLowerCase(leak.cat), toLowerCase(searchQuery))
      DataType(leak) ==
        catFilter # All => includes(toLowerCase(leak.cat), toLowerCase(catFilter))
      Start(leak) == ~IsFalsyDate(startDate) => dateAtLeast(leak.date, startDate)
      End(leak) == ~IsFalsyDate(endDate) => dateAtMost(leak.date, endDate)
      Match(leak) == Search(leak) /\ DataType(leak) /\ Start(leak) /\ End(leak)
  IN  SelectSeq(records, Match)

\* ProgramsPage.filteredPrograms
filteredPrograms ==
  LET Match(program) ==
        LET matchesSearch ==
              \/ searchQuery = EmptyStr
              \/ includes(toLowerCase(program.name), toLowerCase(searchQuery))
            matchesPlatform == catFilter = All \/ program.cat = catFilter
        IN  matchesSearch /\ matchesPlatform
  IN  SelectSeq(records, Match)

\* NewsPage: the filter steps of the "Apply filters and sorting" effect.
newsFiltered ==
  LET Search(article) ==
        searchQuery # EmptyStr =>
          \/ includes(toLowerCase(article.name), toLowerCase(searchQuery))
          \/ includes(toLowerCase(article.cat), toLowerCase(searchQuery))
      Source(article) ==
        catFilter # EmptyStr => toLowerCase(article.cat) = toLowerCase(catFilter)
      Match(article) == Search(article) /\ Source(article)
  IN  SelectSeq(records, Match)

\* The records that pass all active filters of the mounted page: the input
\* of its sort and of its pagination window.
Filtered ==
  CASE view = "tools" -> getFilteredTools
    [] view = "vulnerabilities" -> getFilteredVulnerabilities
    [] view = "web3" -> projectFilteredExploits
    [] view = "releases" -> releasesFilteredData
    [] view = "leaks" -> leaksFilterResults
    [] view = "programs" -> filteredPrograms
    [] view = "news" -> newsFiltered

filteredCount == Len(Filtered)

\* const totalPages = Math.ceil(filtered.length / pageSize)
totalPages == Ceil(filteredCount, pageSize(view))

(***************************************************************************)
(* Sorting.  A comparator yields -1, 0 or 1: the sign of the number the    *)
(* JavaScript comparator returns, a NaN result counting as 0.              *)
(***************************************************************************)
Directed(c) == IF sortConfig.direction = "asc" THEN c ELSE 0 - c

\* a[key] as a string, for the string-typed fields.
strField(r, key) ==
  CASE FieldOf(key) = "name" -> r.name
    [] FieldOf(key) = "cat" -> r.cat
    [] FieldOf(key) = "tags" -> r.tags
    [] OTHER -> NullStr

IsStringKey(key) == FieldOf(key) \in {"name", "cat", "tags"}

\* a[key] === null || a[key] === undefined
isNullish(r, key) ==
  CASE FieldOf(key) = "date" -> r.date.kind = "missing"
    [] FieldOf(key) = "num" -> IsNullNum(r.num)
    [] OTHER -> IsNullStr(strField(r, key))

\* typeof a[key] === 'string'
isString(r, key) ==
  CASE FieldOf(key) = "date" -> r.date.kind # "missing"
    [] FieldOf(key) = "num" -> FALSE
    [] OTHER -> ~IsNullStr(strField(r, key))

\* The text of a date field, compared as text: the digits of a YYYY-MM-DD
\* string sort before the letters of an unparsable one.
dateTextCompare(a, b) ==
  IF a.kind = "ymd" /\ b.kind = "ymd" THEN Sign(getTime(a) - getTime(b))
  ELSE IF a.kind = "ymd" THEN -1
  ELSE IF b.kind = "ymd" THEN 1
  ELSE 0

\* ToolsPage.sortedTools, VulnerabilitiesPage.sortedVulnerabilities
toolsCompare(a, b) ==
  IF isString(a, sortConfig.key) /\ isString(b, sortConfig.key)
  THEN Directed(localeCompare(strField(a, sortConfig.key), strField(b, sortConfig.key)))
  ELSE 0

\* ProgramsPage.sortedPrograms
programsCompare(a, b) ==
  IF isString(a, sortConfig.key) /\ isString(b, sortConfig.key)
  THEN Directed(localeCompare(toLowerCase(strField(a, sortConfig.key)),
                              toLowerCase(strField(b, sortConfig.key))))
  ELSE 0

\* Web3ThreatsPage.sortedExploits
web3Compare(a, b) ==
  LET key == sortConfig.key
  IN  IF isNullish(a, key) THEN Directed(-1)
      ELSE IF isNullish(b, key) THEN Directed(1)
      ELSE IF key = "date"
           THEN IF IsInvalidDate(a.date) \/ IsInvalidDate(b.date)
                THEN Directed(dateTextCompare(a.date, b.date))
                ELSE Directed(Sign(getTime(a.date) - getTime(b.date)))
      ELSE IF key = "funds_lost" THEN Directed(Sign(a.num - b.num))
      ELSE IF isString(a, key) /\ isString(b, key)
           THEN Directed(localeCompare(strField(a, key), strField(b, key)))
      ELSE 0

\* ReleasePage.sortedData: a null daysSinceRelease counts as Infinity, and
\* Infinity - Infinity is NaN.
releasesCompare(a, b) ==
  LET key == sortConfig.key
  IN  IF key = "daysSinceRelease"
      THEN IF IsNullNum(a.num) /\ IsNullNum(b.num) THEN 0
           ELSE IF IsNullNum(a.num) THEN Directed(1)
           ELSE IF IsNullNum(b.num) THEN Directed(-1)
           ELSE Directed(Sign(a.num - b.num))
      ELSE IF isString(a, key) /\ isString(b, key)
           THEN Directed(localeCompare(toLowerCase(strField(a, key)),
                                       toLowerCase(strField(b, key))))
      ELSE 0

\* UTF-16 code unit of a character: the order of the < and > operators.
CodeUnit(c) ==
  IF c = " " THEN 32
  ELSE IF c = "," THEN 44
  ELSE IF c = "A" THEN 65
  ELSE IF c = "B" THEN 66
  ELSE IF c = "a" THEN 97
  ELSE IF c = "b" THEN 98
  ELSE 108

\* DataLeaksPage: the comparator of the "Apply filters" effect.  The < and >
\* operators are both false when a side is NaN; null counts as 0.
leaksCompare(a, b) ==
  LET key == sortConfig.key
  IN  IF key = "breach_date"
      THEN IF IsInvalidDate(a.date) \/ IsInvalidDate(b.date) THEN 0
           ELSE Directed(Sign(getTime(a.date) - getTime(b.date)))
      ELSE IF key = "leak_count"
      THEN Directed(Sign((IF IsNullNum(a.num) THEN 0 ELSE a.num)
                         - (IF IsNullNum(b.num) THEN 0 ELSE b.num)))
      ELSE Directed(LexCompare(CodeUnit, strField(a, key), strField(b, key)))

\* NewsPage: the comparator of the "Apply filters and sorting" effect.
newsCompare(a, b) ==
  LET key == sortConfig.key
  IN  IF key = "pubDate"
      THEN IF IsInvalidDate(a.date) \/ IsInvalidDate(b.date) THEN 0
           ELSE Directed(Sign(getTime(a.date) - getTime(b.date)))
      ELSE IF isNullish(a, key) /\ isNullish(b, key) THEN 0
      ELSE IF isNullish(a, key) THEN 1
      ELSE IF isNullish(b, key) THEN -1
      ELSE Directed(localeCompare(strField(a, key), strField(b, key)))

\* The comparator the mounted page hands to Array.prototype.sort.
compare(a, b) ==
  CASE view \in {"tools", "vulnerabilities"} -> toolsCompare(a, b)
    [] view = "programs" -> programsCompare(a, b)
    [] view = "web3" -> web3Compare(a, b)
    [] view = "releases" -> releasesCompare(a, b)
    [] view = "leaks" -> leaksCompare(a, b)
    [] view = "news" -> newsCompare(a, b)

Range(seq) == {seq[i] : i \in 1..Len(seq)}

\* A consistent comparator (ECMAScript, Array.prototype.sort) on the elements
\* of seq: the calls the sort can make, each on two distinct elements, order
\* them totally up to ties.  A comparator never reads a record's id, so the
\* condition is stated on the values: a value that occurs twice compares
\* equal to itself, and distinct values are ordered totally up to ties.
IsConsistent(seq) ==
  LET valueOf(r) == [r EXCEPT !.id = 0]
      vals == {valueOf(r) : r \in Range(seq)}
      twice == {valueOf(seq[i]) : i \in {k \in 1..Len(seq) :
                  \E j \in 1..Len(seq) : j # k /\ valueOf(seq[j]) = valueOf(seq[k])}}
  IN  /\ \A a \in twice : compare(a, a) = 0
      /\ \A a, b \in vals : a # b => compare(a, b) = 0 - compare(b, a)
      /\ \A a, b, c \in vals :
           (a # b /\ b # c /\ a # c) =>
             /\ (compare(a, b) = 0 /\ compare(b, c) = 0) => compare(a, c) = 0
             /\ (compare(a, b) < 0 /\ compare(b, c) <= 0) => compare(a, c) < 0
             /\ (compare(a, b) <= 0 /\ compare(b, c) < 0) => compare(a, c) < 0

\* The stable sort of seq by a consistent comparator: element i goes behind
\* the other elements that compare less than it and the earlier elements
\* that compare equal to it.
StableSort(seq) ==
  LET n == Len(seq)
      rank(i) == Cardinality({j \in (1..n) \ {i} :
                    \/ compare(seq[j], seq[i]) < 0
                    \/ (compare(seq[j], seq[i]) = 0 /\ j < i)})
  IN  [k \in 1..n |-> seq[CHOOSE i \in 1..n : rank(i) = k - 1]]

\* Every ordering of the elements of seq.
RECURSIVE Permutations0(_)
Permutations0(seq) ==
  IF seq = <<>> THEN {<<>>}
  ELSE UNION { {<<seq[i]>> \o p :
                  p \in Permutations0(SubSeq(seq, 1, i - 1) \o SubSeq(seq, i + 1, Len(seq)))}
               : i \in 1..Len(seq) }

\* [...seq].sort(compare): the stable sort when the comparator is consistent
\* on seq; otherwise the order is implementation-defined, any permutation.
SortOutcomes(seq) ==
  IF IsConsistent(seq) THEN {StableSort(seq)} ELSE Permutations0(seq)

\* The sorted rows the mounted page may render.
Sorted == SortOutcomes(Filtered)

\* sorted.slice((currentPage - 1) * pageSize, currentPage * pageSize).
\* slice counts a negative index from the end and clips both ends.
slice(seq, start, end) ==
  LET n  == Len(seq)
      lo == IF start < 0 THEN Max(n + start, 0) ELSE Min(start, n)
      hi == IF end < 0 THEN Max(n + end, 0) ELSE Min(end, n)
  IN  SubSeq(seq, lo + 1, hi)

\* The rows of the pagination window, for each order the sort may produce.
PageItems ==
  {slice(rows, (currentPage - 1) * pageSize(view), currentPage * pageSize(view)) :
     rows \in Sorted}

\* The number of rows the window shows (the same for every order).
pageItemsLength ==
  Len(slice(Filtered, (currentPage - 1) * pageSize(view), currentPage * pageSize(view)))

(***************************************************************************)
(* Derived aggregates of the Web3 page.                                    *)
(***************************************************************************)
\* seq.reduce((sum, exploit) => sum + (exploit.funds_lost ?? 0), 0)
RECURSIVE sumFundsLost(_)
sumFundsLost(seq) ==
  IF seq = <<>> THEN 0
  ELSE (IF IsNullNum(Head(seq).num) THEN 0 ELSE Head(seq).num) + sumFundsLost(Tail(seq))

\* The "Total Losses" card.
totalLosses == sumFundsLost(projectFilteredExploits)

\* A quotient a / b of two numbers, kept as the pair.
Quotient(a, b) == [num |-> a, den |-> b]

\* The "Average Loss" card:
\* projectFilteredExploits.length > 0 ? totalLosses / length : 0
averageLoss ==
  IF Len(projectFilteredExploits) > 0
  THEN Quotient(totalLosses, Len(projectFilteredExploits))
  ELSE Quotient(0, 1)

\* The "Total Incidents" card.
totalIncidents == Len(filteredExploits)

\* The viewer's time zone: at or east of UTC, or west of it.
TimeZones == {"utc", "west"}

\* The (month, year) label of new Date(date) for a "YYYY-MM-DD" string: the
\* string is parsed as midnight UTC and the label is read in local time, so
\* west of UTC it is the label of the day before.
monthYearIn(tz, dt) ==
  IF tz = "west" /\ dt.kind = "ymd" /\ dt.d = 1
  THEN (IF dt.m = 1 THEN [y |-> dt.y - 1, m |-> 12] ELSE [y |-> dt.y, m |-> dt.m - 1])
  ELSE [y |-> dt.y, m |-> dt.m]

\* The (month, year) label of a record's date at or east of UTC.
monthYear(dt) == monthYearIn("utc", dt)

\* The reduce of lossesOverTimeData: one bucket per label, in the order the
\* labels first appear, each summing funds_lost ?? 0.
RECURSIVE bucketByMonthIn(_, _, _)
bucketByMonthIn(tz, acc, seq) ==
  IF seq = <<>> THEN acc
  ELSE LET exploit == Head(seq)
           label == monthYearIn(tz, exploit.date)
           value == IF IsNullNum(exploit.num) THEN 0 ELSE exploit.num
       IN  IF IsFalsyDate(exploit.date) THEN bucketByMonthIn(tz, acc, Tail(seq))
           ELSE IF \E i \in 1..Len(acc) : acc[i].date = label
           THEN LET i == CHOOSE k \in 1..Len(acc) : acc[k].date = label
                IN  bucketByMonthIn(tz, [acc EXCEPT ![i].value = @ + value], Tail(seq))
           ELSE bucketByMonthIn(tz, Append(acc, [date |-> label, value |-> value]),
                                Tail(seq))

bucketByMonth(acc, seq) == bucketByMonthIn("utc", acc, seq)

\* What new Date(label) makes of a "Mon YYYY" label.  The label carries the
\* month name of the browser's default locale and Date parsing of such a
\* string is implementation-defined:
\*   "month"    the first day of the month (an English month name),
\*   "year"     the first day of the year (the unrecognised month word is
\*              skipped, only the year is read),
\*   "invalid"  Invalid Date, whose getTime() is NaN.
LabelParses == {"month", "year", "invalid"}

\* The sign of dateA.getTime() - dateB.getTime() of the series sort, a NaN
\* counting as 0.
labelCompare(mode, a, b) ==
  CASE mode = "month" -> Sign((a.y * 12 + a.m) - (b.y * 12 + b.m))
    [] mode = "year" -> Sign(a.y - b.y)
    [] OTHER -> 0

\* The sort of the buckets by the date their label parses to.
RECURSIVE insertBucketBy(_, _, _)
insertBucketBy(mode, sorted, x) ==
  IF sorted = <<>> THEN <<x>>
  ELSE LET last == sorted[Len(sorted)]
       IN  IF labelCompare(mode, x.date, last.date) < 0
           THEN Append(insertBucketBy(mode, SubSeq(sorted, 1, Len(sorted) - 1), x), last)
           ELSE Append(sorted, x)

RECURSIVE sortBucketsBy(_, _)
sortBucketsBy(mode, seq) ==
  IF seq = <<>> THEN <<>>
  ELSE insertBucketBy(mode, sortBucketsBy(mode, SubSeq(seq, 1, Len(seq) - 1)),
                      seq[Len(seq)])

\* The sort where the labels parse to their month.
insertBucket(sorted, x) == insertBucketBy("month", sorted, x)

sortBuckets(seq) == sortBucketsBy("month", seq)

\* The month-bucketed series of a record sequence.
seriesOf(seq) == sortBuckets(bucketByMonth(<<>>, seq))

\* Web3ThreatsPage.lossesOverTimeData: the series handed to the chart
\* where the labels parse to their month.
lossesOverTimeData == seriesOf(filteredExploits)

\* Web3ThreatsPage.lossesOverTimeData in every browser: one series for each
\* way the browser may parse the labels and each side of UTC it may be on.
lossesOverTimeOutcomes ==
  {sortBucketsBy(mode, bucketByMonthIn(tz, <<>>, filteredExploits)) :
     mode \in LabelParses, tz \in TimeZones}

(***************************************************************************)
(* The edge proxy: a Worker that forwards year files to the origin.        *)
(***************************************************************************)
Digits == {"0", "1", "2", "3", "4", "5", "6", "7", "8", "9"}

\* !s of a string binding or header: undefined, null and "" are falsy.
Falsy(s) == IsNullStr(s) \/ s = EmptyStr

\* s.replace(/^\/+/, "")
RECURSIVE stripLeadingSlashes(_)
stripLeadingSlashes(s) ==
  IF s # <<>> /\ Head(s) = "/" THEN stripLeadingSlashes(Tail(s)) ELSE s

\* s.replace(/\/+$/, "")
RECURSIVE stripTrailingSlashes(_)
stripTrailingSlashes(s) ==
  IF s # <<>> /\ s[Len(s)] = "/"
  THEN stripTrailingSlashes(SubSeq(s, 1, Len(s) - 1))
  ELSE s

\* A path test that lets every .json file through.
isYearFile_AnyJson(path) ==
  /\ Len(path) >= 5
  /\ SubSeq(path, Len(path) - 4, Len(path)) = <<".", "j", "s", "o", "n">>

\* /^\d{4}\.json$/.test(path)
isYearFile(path) ==
  /\ Len(path) = 9
  /\ \A i \in 1..4 : path[i] \in Digits
  /\ SubSeq(path, 5, 9) = <<".", "j", "s", "o", "n">>

\* A token test that only asks for some header value.
unauthorized_AnyToken(env, request) ==
  /\ ~Falsy(env.UPSTREAM_PROXY_TOKEN)
  /\ Falsy(request.token)

\* The access control of the handler: a token is configured and the
\* x-upstream-token header is missing, empty or different.
unauthorized(env, request) ==
  /\ ~Falsy(env.UPSTREAM_PROXY_TOKEN)
  /\ (Falsy(request.token) \/ request.token # env.UPSTREAM_PROXY_TOKEN)

\* An origin test that only looks for an unset binding.
unconfigured_UnsetOnly(env) == IsNullStr(env.ORIGIN_BASE_URL)

\* !env.ORIGIN_BASE_URL
unconfigured(env) == Falsy(env.ORIGIN_BASE_URL)

\* A Response with the given status; status 0 of kind "none": no answer yet.
ResponseOf(status) == [kind |-> "response", status |-> status]
\* The handler threw; the runtime answers in its place.
Exception == [kind |-> "exception", status |-> 0]

\* new Response(text, { status }): a RangeError outside 200..599 and a
\* TypeError for a null body status (101, 103, 204, 205, 304), since the
\* body is a string.
newResponse(status) ==
  IF status < 200 \/ status > 599 \/ status \in {101, 103, 204, 205, 304}
  THEN Exception
  ELSE ResponseOf(status)

NoEnv == [UPSTREAM_PROXY_TOKEN |-> NullStr, ORIGIN_BASE_URL |-> NullStr]

\* The Worker with bindings env, serving no request.
ProxyIdle(env) ==
  [env |-> env, phase |-> "idle",
   request |-> [method |-> "", token |-> NullStr, pathname |-> EmptyStr],
   target |-> NullStr, upstream |-> 0,
   response |-> [kind |-> "none", status |-> 0]]

\* The bindings of a deployment: each secret unset, empty or set.
Envs ==
  [UPSTREAM_PROXY_TOKEN : {NullStr, EmptyStr, <<"t">>},
   ORIGIN_BASE_URL : {NullStr, EmptyStr, <<"o">>, <<"o", "/">>}]

\* The pathnames of the requests: new URL(request.url).pathname.
Pathnames ==
  { <<"/", "2", "0", "2", "6", ".", "j", "s", "o", "n">>,
    <<"/", "/", "2", "0", "2", "6", ".", "j", "s", "o", "n">>,
    <<"/", "2", "0", "2", "6", "1", ".", "j", "s", "o", "n">>,
    <<"/", "2", "0", "2", "a", ".", "j", "s", "o", "n">>,
    <<"/", "2", "0", "2", "6", "x", "j", "s", "o", "n">>,
    <<"/", "2", "0", "2", "6", ".", "j", "s", "o", "n", "/">>,
    <<"/", "a", "/", "2", "0", "2", "6", ".", "j", "s", "o", "n">>,
    <<"/", "a", ".", "j", "s", "o", "n">>,
    <<"/">> }

\* The requests: request.method, headers.get("x-upstream-token"), pathname.
Requests ==
  [method : {"GET", "POST"},
   token : {NullStr, EmptyStr, <<"t">>, <<"x">>},
   pathname : Pathnames]

\* The statuses the origin answers with.
UpstreamStatuses == {200, 204, 304, 403, 404, 500, 503}

\* The handler up to its await: the state it leaves for `request`.
received(env, request) ==
  LET path == stripLeadingSlashes(request.pathname)
      answered(status) ==
        [env |-> env, phase |-> "responded", request |-> request,
         target |-> NullStr, upstream |-> 0, response |-> ResponseOf(status)]
  IN  IF unauthorized(env, request) THEN answered(401)
      ELSE IF ~isYearFile(path) THEN answered(404)
      ELSE IF unconfigured(env) THEN answered(500)
      ELSE [env |-> env, phase |-> "fetching", request |-> request,
            target |-> stripTrailingSlashes(env.ORIGIN_BASE_URL) \o <<"/">> \o path,
            upstream |-> 0, response |-> [kind |-> "none", status |-> 0]]

(***************************************************************************)
(* The CVE page: the server paginates, the page only asks for a page.      *)
(***************************************************************************)
CveMaxActions == 2

\* A request of fetchCVEData, and the server page its response carries:
\* the page number and the year parameter ("" when it is left out).
CveRequests == [page : 1..3, year : {"", "2024"}]

\* fetchCVEData(page, year) up to its await: loading is set and the request
\* is in flight.
fetchCVEData(c, page, year) ==
  [c EXCEPT !.loading = TRUE,
            !.inflight[[page |-> page, year |-> year]] = @ + 1]

\* The effect on [currentPage, selectedYear], run by the render that
\* follows a state change from old to new.
cveEffect(old, new) ==
  IF <<new.currentPage, new.selectedYear>> # <<old.currentPage, old.selectedYear>>
  THEN fetchCVEData(new, new.currentPage, new.selectedYear)
  ELSE new

\* State setters that also write to a component that is gone.
setState_Unguarded(c, next) == next

\* The state setters called by a resumed fetchCVEData: React drops the
\* updates of a component that has been unmounted.
setState(c, next) == IF c.mounted THEN next ELSE c

\* The CVE page after its mount: the effect has asked for page 1.
CveMounted ==
  fetchCVEData([currentPage |-> 1, selectedYear |-> "", loading |-> TRUE,
                cveData |-> [page |-> 0, year |-> ""],
                inflight |-> [r \in CveRequests |-> 0],
                mounted |-> TRUE, actions |-> 0, late |-> FALSE],
               1, "")

(***************************************************************************)
(* The home dashboard: its onboarding and its summary loader.              *)
(***************************************************************************)
\* The feeds of the dashboard, in the order fetchData awaits them.
HomeFeeds == <<"news", "eol", "leaks", "web3">>

\* How the endpoint of a feed answers: with the expected body, with a
\* rejected fetch (network failure, a body that is not JSON), or with a body
\* that has no data member (an error object).
EndpointKinds == {"ok", "rejected", "malformed"}

\* The profiles the profile builder can hand over (two of its focus ids and
\* two of its role ids).
Profiles == [world : {"web3", "web2"}, role : {"developer", "learner"}]

\* userProfile === null
NoProfile == [world |-> "", role |-> ""]

\* JSON.stringify of a profile: the text, as the tuple of its two members.
JSONstringify(profile) == <<profile.world, profile.role>>

\* JSON.parse of a stored profile.
JSONparse(text) == [world |-> text[1], role |-> text[2]]

\* localStorage.getItem yields null for an absent key: the empty item.
NullItem == <<>>

\* What localStorage can hold when the page loads.
Storages ==
  [hasCompletedOnboarding : {NullItem, <<"true">>},
   userProfile : {NullItem} \cup {JSONstringify(p) : p \in Profiles},
   userInterest : {NullItem}]

\* localStorage.setItem(key, value); writes is the history of the keys
\* written since the load.
setItem(h, key, value) ==
  [h EXCEPT !.storage[key] = value, !.writes = Append(@, key)]

\* The mount effect of the onboarding: a stored completion flag alone
\* completes it.
loadOnboarding_FlagOnly(h) ==
  IF h.storage.hasCompletedOnboarding # NullItem
  THEN [h EXCEPT !.onboardingStep = "complete"]
  ELSE h

\* The mount effect of the onboarding.
loadOnboarding(h) ==
  IF h.storage.hasCompletedOnboarding # NullItem
     /\ h.storage.userProfile # NullItem
  THEN setItem([h EXCEPT !.onboardingStep = "complete",
                         !.userProfile = JSONparse(h.storage.userProfile)],
               "userInterest", <<JSONparse(h.storage.userProfile).world>>)
  ELSE h

\* handleProfileComplete(profile)
handleProfileComplete(h, profile) ==
  setItem(setItem([h EXCEPT !.userProfile = profile,
                            !.onboardingStep = "welcome"],
                  "userProfile", JSONstringify(profile)),
          "userInterest", <<profile.world>>)

\* fetchData resumes with the answer of the feed it awaits: a good answer
\* populates the feed's summary and fetchData goes on to the next feed; any
\* other answer throws, inside the one try block around the four feeds, and
\* the catch and the finally end the load.
fetchDataResumes(h) ==
  LET feed == HomeFeeds[h.awaiting]
  IN  IF h.endpoint[feed] = "ok"
      THEN [h EXCEPT !.populated = @ \cup {feed},
                     !.awaiting = @ + 1,
                     !.loading = IF h.awaiting = Len(HomeFeeds) THEN FALSE ELSE @]
      ELSE [h EXCEPT !.awaiting = Len(HomeFeeds) + 1,
                     !.loading = FALSE]

\* The home page as constructed, before its mount effects: awaiting is the
\* position of the feed fetchData is waiting for (0 before the mount,
\* Len(HomeFeeds) + 1 once fetchData has returned).
HomeConstructed(storage, endpoint) ==
  [onboardingStep |-> "entry", userProfile |-> NoProfile,
   builderStep |-> "focus", selectedFocus |-> "", selectedRole |-> "",
   loading |-> TRUE, populated |-> {}, awaiting |-> 0,
   endpoint |-> endpoint, storage |-> storage, writes |-> <<>>]

\* A first visit with every endpoint healthy.
HomeFirstVisit ==
  HomeConstructed([hasCompletedOnboarding |-> NullItem, userProfile |-> NullItem,
                   userInterest |-> NullItem],
                  [f \in {"news", "eol", "leaks", "web3"} |-> "ok"])

(***************************************************************************)
(* The state machine of a mounted page.                                    *)
(***************************************************************************)
\* A page at mount, in view v.
PageInit(v) ==
  /\ view = v
  /\ loading = TRUE
  /\ records = <<>>
  /\ searchQuery = EmptyStr
  /\ catFilter = InitialCatFilter(view)
  /\ tagFilter = All
  /\ timeFilter = "3m"
  /\ startDate = MissingDate
  /\ endDate = MissingDate
  /\ sortConfig = InitialSortConfig(view)
  /\ currentPage = 1
  /\ nameClicks = 0
  /\ now = Now
  /\ crashed = FALSE
  /\ fetchOutcome = "pending"

Init ==
  /\ \E v \in Views : PageInit(v)
  /\ proxy = ProxyIdle(NoEnv)
  /\ cve = CveMounted
  /\ home = HomeFirstVisit

filterVars == <<searchQuery, catFilter, tagFilter, timeFilter, startDate, endDate>>

\* The page is rendered: the fetch has settled and no render has thrown.
Shown == ~loading /\ ~crashed

\* The mount effect's fetch resolves with a 2xx response carrying a feed.
FetchSuccess(feed) ==
  /\ loading
  /\ records' = IF view = "releases"
                THEN [i \in 1..Len(feed) |-> normalizeRelease(feed[i])]
                ELSE feed
  /\ loading' = FALSE
  /\ fetchOutcome' = "ok"
  /\ UNCHANGED <<now, crashed, otherVars, view, filterVars, sortConfig, currentPage,
               nameClicks>>

\* The mount effect's fetch rejects (network error) or the body is not JSON:
\* the catch block runs and the record set stays, or is set to, [].
FetchFailure ==
  /\ loading
  /\ records' = <<>>
  /\ loading' = FALSE
  /\ fetchOutcome' = "rejected"
  /\ UNCHANGED <<now, crashed, otherVars, view, filterVars, sortConfig, currentPage,
               nameClicks>>

\* The pages whose fetch handler looks at the response before it stores the
\* data: response.ok (Tools, Vulnerabilities, Web3) or data.data (Releases).
ChecksResponse(v) == v \in {"tools", "vulnerabilities", "web3", "releases"}

\* The non-2xx path without the finally block of the effect.
FetchErrorStatus_NoFinally ==
  /\ loading
  /\ records' = <<>>
  /\ crashed' = ~ChecksResponse(view)
  /\ fetchOutcome' = "status"
  /\ UNCHANGED <<loading, now, otherVars, view, filterVars, sortConfig, currentPage,
               nameClicks>>

\* The mount effect's fetch resolves with a non-2xx response whose JSON body
\* is an error object without a data field.  A page that does not look at
\* the response stores data.data, undefined, and its next render throws;
\* records stands for the rows shown, none.
FetchErrorStatus ==
  /\ loading
  /\ records' = <<>>
  /\ crashed' = ~ChecksResponse(view)
  /\ loading' = FALSE
  /\ fetchOutcome' = "status"
  /\ UNCHANGED <<now, otherVars, view, filterVars, sortConfig, currentPage, nameClicks>>

\* The pages whose search and categorical controls reset the page: the Web3
\* page in the handler itself, the others in an effect on the filter values.
ResetsPageOnFilter(v) == v \in {"web3", "releases", "leaks", "programs", "news"}

\* The page after a change of a search, categorical or date-bound filter.
pageAfterFilterChange == IF ResetsPageOnFilter(view) THEN 1 ELSE currentPage

\* The search of the next render throws a TypeError: outside the Web3 and
\* Releases pages the fields are read as field.toLowerCase(), one after the
\* other until one contains the query, and some record has a null field
\* behind fields that do not contain it.
searchThrows(q) ==
  /\ q # EmptyStr
  /\ view \notin {"web3", "releases"}
  /\ LET fields == SearchFields(view)
     IN  \E i \in 1..Len(records) : \E k \in 1..Len(fields) :
           /\ IsNullStr(records[i][fields[k]])
           /\ \A j \in 1..(k - 1) :
                ~includes(toLowerCase(records[i][fields[j]]), toLowerCase(q))

\* onChange of the search box.
SetSearchQuery(q) ==
  /\ Shown
  /\ q # searchQuery
  /\ searchQuery' = q
  /\ crashed' = searchThrows(q)
  /\ currentPage' = pageAfterFilterChange
  /\ UNCHANGED <<now, fetchOutcome, otherVars, view, loading, records, catFilter,
                 tagFilter, timeFilter, startDate, endDate, sortConfig, nameClicks>>

\* onChange of the category / type / platform / source / data type select.
SetCatFilter(c) ==
  /\ Shown
  /\ c # catFilter
  /\ catFilter' = c
  /\ currentPage' = pageAfterFilterChange
  /\ UNCHANGED <<restVars, view, loading, records, searchQuery, tagFilter, timeFilter,
                 startDate, endDate, sortConfig, nameClicks>>

\* Web3ThreatsPage: onChange of the category select.
SetCategoryFilter(c) ==
  /\ Shown
  /\ view = "web3"
  /\ c # tagFilter
  /\ tagFilter' = c
  /\ currentPage' = 1
  /\ UNCHANGED <<restVars, view, loading, records, searchQuery, catFilter, timeFilter,
                 startDate, endDate, sortConfig, nameClicks>>

\* Web3ThreatsPage: onClick of a time range button.
SetTimeFilter(tf) ==
  /\ Shown
  /\ view = "web3"
  /\ timeFilter' = tf
  /\ UNCHANGED <<restVars, view, loading, records, searchQuery, catFilter, tagFilter,
                 startDate, endDate, sortConfig, currentPage, nameClicks>>

\* ReleasePage, DataLeaksPage: onChange of the start date picker.
SetStartDate(d) ==
  /\ Shown
  /\ view \in {"releases", "leaks"}
  /\ d # startDate
  /\ startDate' = d
  /\ currentPage' = pageAfterFilterChange
  /\ UNCHANGED <<restVars, view, loading, records, searchQuery, catFilter, tagFilter,
                 timeFilter, endDate, sortConfig, nameClicks>>

\* ReleasePage, DataLeaksPage: onChange of the end date picker.
SetEndDate(d) ==
  /\ Shown
  /\ view \in {"releases", "leaks"}
  /\ d # endDate
  /\ endDate' = d
  /\ currentPage' = pageAfterFilterChange
  /\ UNCHANGED <<restVars, view, loading, records, searchQuery, catFilter, tagFilter,
                 timeFilter, startDate, sortConfig, nameClicks>>

\* A toggle that never flips to desc.
nextSortConfig_NoFlip(prev, key) ==
  [key |-> key, direction |-> "asc"]

\* A toggle that flips the direction whatever the column.
nextSortConfig_AlwaysFlip(prev, key) ==
  [key |-> key, direction |-> IF prev.direction = "asc" THEN "desc" ELSE "asc"]

\* setSortConfig(prev => ({key, direction: prev.key === key &&
\*                         prev.direction === 'asc' ? 'desc' : 'asc'}))
nextSortConfig(prev, key) ==
  [key |-> key,
   direction |-> IF prev.key = key /\ prev.direction = "asc" THEN "desc" ELSE "asc"]

\* The page after a sort change: only the Web3 page's handler resets it.
pageAfterSortChange == IF view = "web3" THEN 1 ELSE currentPage

\* handleSortChange / requestSort / onSort: a click on the header of a
\* sortable column.  nameClicks records the clicks since mount: 0 none,
\* 1 one click on "name", 2 two clicks on "name", 3 two clicks on "name"
\* and then one on another column, 4 any other history.
HandleSortChange(key) ==
  /\ Shown
  /\ key \in SortColumns(view)
  /\ sortConfig' = nextSortConfig(sortConfig, key)
  /\ currentPage' = pageAfterSortChange
  /\ nameClicks' = IF nameClicks = 0 /\ key = "name" THEN 1
                   ELSE IF nameClicks = 1 /\ key = "name" THEN 2
                   ELSE IF nameClicks = 2 /\ key # "name" THEN 3
                   ELSE 4
  /\ UNCHANGED <<restVars, view, loading, records, filterVars>>

\* The pagination controls are rendered: always on the programs page,
\* elsewhere only when there is more than one page.
ControlsShown == Shown /\ (view = "programs" \/ totalPages > 1)

\* The First button (not on the programs page).
GoFirst ==
  /\ ControlsShown
  /\ view # "programs"
  /\ currentPage # 1
  /\ currentPage' = 1
  /\ UNCHANGED <<restVars, view, loading, records, filterVars, sortConfig, nameClicks>>

\* The Previous button: setCurrentPage(prev => Math.max(prev - 1, 1))
GoPrevious ==
  /\ ControlsShown
  /\ currentPage # 1
  /\ currentPage' = Max(currentPage - 1, 1)
  /\ UNCHANGED <<restVars, view, loading, records, filterVars, sortConfig, nameClicks>>

\* The Next button: setCurrentPage(prev => Math.min(prev + 1, totalPages))
GoNext ==
  /\ ControlsShown
  /\ currentPage # totalPages
  /\ currentPage' = Min(currentPage + 1, totalPages)
  /\ UNCHANGED <<restVars, view, loading, records, filterVars, sortConfig, nameClicks>>

\* The Last button (not on the programs page).
GoLast ==
  /\ ControlsShown
  /\ view # "programs"
  /\ currentPage # totalPages
  /\ currentPage' = totalPages
  /\ UNCHANGED <<restVars, view, loading, records, filterVars, sortConfig, nameClicks>>

\* A numbered page button or the page select: one of the pages 1..totalPages.
GoToPage(n) ==
  /\ ControlsShown
  /\ n \in 1..totalPages
  /\ n # currentPage
  /\ currentPage' = n
  /\ UNCHANGED <<restVars, view, loading, records, filterVars, sortConfig, nameClicks>>

CatOptions == CatOptionsOf(view)

AllColumns == UNION {SortColumns(v) : v \in Views}

Next ==
  \/ \E feed \in Feeds : FetchSuccess(feed)
  \/ FetchFailure
  \/ FetchErrorStatus
  \/ \E q \in Queries : SetSearchQuery(q)
  \/ \E c \in CatOptions : SetCatFilter(c)
  \/ \E c \in CatChoices \cup {All} : SetCategoryFilter(c)
  \/ \E tf \in TimeFilters : SetTimeFilter(tf)
  \/ \E d \in DateChoices : SetStartDate(d)
  \/ \E d \in DateChoices : SetEndDate(d)
  \/ \E key \in AllColumns : HandleSortChange(key)
  \/ GoFirst
  \/ GoPrevious
  \/ GoNext
  \/ GoLast
  \/ \E n \in 1..totalPages : GoToPage(n)

Spec == Init /\ [][Next]_vars

\* The page with its filter controls only, with longer and blank queries
\* typed into the search box and with a feed that lacks a field.
NextFilter ==
  \/ \E feed \in Feeds \cup {WithIds(NullNameFeed)} : FetchSuccess(feed)
  \/ \E q \in Queries \cup {<<"a", "b">>, <<" ">>} : SetSearchQuery(q)
  \/ \E c \in CatOptions : SetCatFilter(c)
  \/ \E c \in CatChoices \cup {All} : SetCategoryFilter(c)
  \/ \E tf \in TimeFilters : SetTimeFilter(tf)
  \/ \E d \in DateChoices : SetStartDate(d)
  \/ \E d \in DateChoices : SetEndDate(d)

SpecFilter == Init /\ [][NextFilter]_vars

\* A later day than Now.
Later == Ymd(2024, 6, 17)

\* Time passes while the page is open: the clock reaches a later day.
Tick ==
  /\ now = Now
  /\ now' = Later
  /\ UNCHANGED <<view, loading, records, filterVars, sortConfig, currentPage,
                 nameClicks, crashed, fetchOutcome, otherVars>>

NextClock == Next \/ Tick

\* The page with a clock that advances.
SpecClock == Init /\ [][NextClock]_vars

(***************************************************************************)
(* The state machine of the edge proxy.                                    *)
(***************************************************************************)
pageVars == <<view, loading, records, filterVars, sortConfig, currentPage,
              nameClicks, now, crashed, fetchOutcome>>

InitProxy ==
  /\ PageInit("tools")
  /\ \E env \in Envs : proxy = ProxyIdle(env)
  /\ cve = CveMounted
  /\ home = HomeFirstVisit

\* A request arrives and the handler runs up to its answer or its await.
ProxyFetch(request) ==
  /\ proxy.phase # "fetching"
  /\ proxy' = received(proxy.env, request)
  /\ UNCHANGED <<pageVars, cve, home>>

\* The upstream fetch resolves and the handler builds its answer.
ProxyFetchResumes(status) ==
  /\ proxy.phase = "fetching"
  /\ proxy' = [proxy EXCEPT
       !.phase = "responded",
       !.upstream = status,
       !.response = IF status \notin 200..299   \* !upstream.ok
                   THEN newResponse(status)
                   ELSE ResponseOf(200)]
  /\ UNCHANGED <<pageVars, cve, home>>

\* The upstream fetch rejects and the handler throws.
ProxyFetchThrows ==
  /\ proxy.phase = "fetching"
  /\ proxy' = [proxy EXCEPT !.phase = "responded", !.response = Exception]
  /\ UNCHANGED <<pageVars, cve, home>>

NextProxy ==
  \/ \E request \in Requests : ProxyFetch(request)
  \/ \E status \in UpstreamStatuses : ProxyFetchResumes(status)
  \/ ProxyFetchThrows

SpecProxy == InitProxy /\ [][NextProxy]_vars

\* The request being served was handed to the origin.
Forwarded == proxy.target # NullStr

(***************************************************************************)
(* The state machine of the CVE page.                                      *)
(***************************************************************************)
InitCve ==
  /\ PageInit("tools")
  /\ proxy = ProxyIdle(NoEnv)
  /\ cve = CveMounted
  /\ home = HomeFirstVisit

\* handlePageChange(page), from a pagination control of the loaded page.
HandlePageChange(page) ==
  /\ cve.mounted /\ ~cve.loading
  /\ cve.actions < CveMaxActions
  /\ cve' = cveEffect(cve,
              fetchCVEData([cve EXCEPT !.currentPage = page,
                                       !.actions = @ + 1], page, ""))
  /\ UNCHANGED <<pageVars, proxy, home>>

\* handleYearChange(year), from the year select of the loaded page.
HandleYearChange(year) ==
  /\ cve.mounted /\ ~cve.loading
  /\ cve.actions < CveMaxActions
  /\ year # cve.selectedYear
  /\ cve' = cveEffect(cve,
              fetchCVEData([cve EXCEPT !.selectedYear = year,
                                       !.currentPage = 1,
                                       !.actions = @ + 1], 1, year))
  /\ UNCHANGED <<pageVars, proxy, home>>

\* The response to request r arrives: fetchCVEData resumes, stores the
\* server page and the page number the response carries (the page asked
\* for), and clears loading; the effect runs if currentPage changed.  The
\* history field late records a response that arrived after the unmount.
CveResponse(r) ==
  /\ cve.inflight[r] > 0
  /\ LET arrived == [cve EXCEPT !.inflight[r] = @ - 1,
                                !.late = @ \/ ~cve.mounted]
     IN  cve' = cveEffect(cve,
                  setState(arrived, [arrived EXCEPT !.cveData = r,
                                                    !.currentPage = r.page,
                                                    !.loading = FALSE]))
  /\ UNCHANGED <<pageVars, proxy, home>>

\* The user leaves the CVE page: the component is unmounted, its requests
\* stay in flight.
CveUnmount ==
  /\ cve.mounted
  /\ cve' = [cve EXCEPT !.mounted = FALSE]
  /\ UNCHANGED <<pageVars, proxy, home>>

NextCve ==
  \/ \E page \in 1..3 : HandlePageChange(page)
  \/ \E year \in {"", "2024"} : HandleYearChange(year)
  \/ \E r \in CveRequests : CveResponse(r)
  \/ CveUnmount

\* The CVE page, every request in flight eventually answered.
SpecCve ==
  /\ InitCve
  /\ [][NextCve]_vars
  /\ \A r \in CveRequests : WF_vars(CveResponse(r))

(***************************************************************************)
(* The state machine of the home dashboard.                                *)
(***************************************************************************)
InitHome ==
  /\ PageInit("tools")
  /\ proxy = ProxyIdle(NoEnv)
  /\ cve = CveMounted
  /\ \E storage \in Storages :
       \E endpoint \in [{"news", "eol", "leaks", "web3"} -> EndpointKinds] :
         home = HomeConstructed(storage, endpoint)

\* The mount: the onboarding effect runs, then the loader's effect starts
\* fetchData, which sets loading and awaits the first feed.
HomeMount ==
  /\ home.awaiting = 0
  /\ home' = [loadOnboarding(home) EXCEPT !.loading = TRUE, !.awaiting = 1]
  /\ UNCHANGED <<pageVars, proxy, cve>>

\* The feed fetchData awaits answers as expected.
HomeFeedLoaded ==
  /\ home.awaiting \in 1..Len(HomeFeeds)
  /\ home.endpoint[HomeFeeds[home.awaiting]] = "ok"
  /\ home' = fetchDataResumes(home)
  /\ UNCHANGED <<pageVars, proxy, cve>>

\* The feed fetchData awaits fails.
HomeFeedFails ==
  /\ home.awaiting \in 1..Len(HomeFeeds)
  /\ home.endpoint[HomeFeeds[home.awaiting]] # "ok"
  /\ home' = fetchDataResumes(home)
  /\ UNCHANGED <<pageVars, proxy, cve>>

\* handleCinematicComplete, from the button of the entry screen, which is
\* rendered at step entry only.
HandleCinematicComplete ==
  /\ home.awaiting > 0
  /\ home.onboardingStep = "entry"
  /\ home' = [home EXCEPT !.onboardingStep = "profile"]
  /\ UNCHANGED <<pageVars, proxy, cve>>

\* handleFocusSelect(focusId) of the profile builder, rendered at step
\* profile only.
HandleFocusSelect(focusId) ==
  /\ home.onboardingStep = "profile"
  /\ home.builderStep = "focus"
  /\ home' = [home EXCEPT !.selectedFocus = focusId, !.builderStep = "role"]
  /\ UNCHANGED <<pageVars, proxy, cve>>

\* handleRoleSelect(roleId) of the profile builder: hands the profile over
\* if a focus has been selected.
HandleRoleSelect(roleId) ==
  /\ home.onboardingStep = "profile"
  /\ home.builderStep = "role"
  /\ LET selected == [home EXCEPT !.selectedRole = roleId]
     IN  home' = IF home.selectedFocus # ""
                 THEN handleProfileComplete(selected,
                        [world |-> home.selectedFocus, role |-> roleId])
                 ELSE selected
  /\ UNCHANGED <<pageVars, proxy, cve>>

\* handleWelcomeComplete, from the timer of the welcome message, which is
\* rendered at step welcome with a profile only.
HandleWelcomeComplete ==
  /\ home.onboardingStep = "welcome"
  /\ home.userProfile # NoProfile
  /\ home' = setItem([home EXCEPT !.onboardingStep = "complete"],
                     "hasCompletedOnboarding", <<"true">>)
  /\ UNCHANGED <<pageVars, proxy, cve>>

NextHome ==
  \/ HomeMount
  \/ HomeFeedLoaded
  \/ HomeFeedFails
  \/ HandleCinematicComplete
  \/ \E focusId \in {"web3", "web2"} : HandleFocusSelect(focusId)
  \/ \E roleId \in {"developer", "learner"} : HandleRoleSelect(roleId)
  \/ HandleWelcomeComplete

SpecHome == InitHome /\ [][NextHome]_vars

\* fetchData has returned.
HomeLoaded == home.awaiting = Len(HomeFeeds) + 1

\* No request of the CVE page is outstanding.
CveQuiet == \A r \in CveRequests : cve.inflight[r] = 0

(***************************************************************************)
(* The claims.                                                             *)
(***************************************************************************)

\* C1: whenever a loaded view has at least one record passing its filters,
\* the page of its window is in range, 1 <= currentPage <= totalPages, and
\* the window shows at least one row: a filter change that shrinks the
\* filtered set re-clamps the page.
C1_PageInRange ==
  (Shown /\ filteredCount > 0) =>
    /\ 1 <= currentPage
    /\ currentPage <= totalPages
    /\ pageItemsLength > 0

\* C2: the totalPages a loaded view computes is
\* max(1, ceil(filteredCount / pageSize)), also when filteredCount is 0.
C2_TotalPagesAtLeastOne ==
  Shown => totalPages = Max(1, Ceil(filteredCount, pageSize(view)))

\* C3: every step that changes a filter input (search, categorical filter,
\* date bound, time range) ends with currentPage = 1.
C3_FilterChangeResetsPage ==
  [][filterVars' # filterVars => currentPage' = 1]_vars

\* C4: every step that changes the sort state ends with currentPage = 1.
C4_SortChangeResetsPage ==
  [][sortConfig' # sortConfig => currentPage' = 1]_vars

\* The sort key of the record is null, undefined or an unparsable date.
keyMissing(r) ==
  \/ isNullish(r, sortConfig.key)
  \/ (FieldOf(sortConfig.key) = "date" /\ IsInvalidDate(r.date))

\* C5: in the sorted rows of a loaded view no record whose sort key is
\* null, undefined or unparsable comes before a record that has a value,
\* whatever the direction.
C5_NullsLast ==
  Shown =>
    \A rows \in Sorted :
      \A i, j \in 1..Len(rows) :
        (i < j /\ keyMissing(rows[i])) => keyMissing(rows[j])

\* A date bound is active on the mounted page.
dateBoundActive ==
  \/ (view = "web3" /\ timeFilter # "all")
  \/ (view \in {"releases", "leaks"} /\
      (~IsFalsyDate(startDate) \/ ~IsFalsyDate(endDate)))

\* Every filter other than the date filter is at the value that passes
\* every record.
otherFiltersPassAll ==
  /\ searchQuery = EmptyStr
  /\ catFilter = InitialCatFilter(view)
  /\ tagFilter = All

\* C6: with the other filters passing every record, a record whose date is
\* missing or unparsable is in the filtered set exactly when no date bound
\* is active.
C6_DatelessRecords ==
  (Shown /\ otherFiltersPassAll) =>
    \A i \in 1..Len(records) :
      IsInvalidDate(records[i].date) =>
        ((records[i] \in Range(Filtered)) <=> ~dateBoundActive)

\* C7: every summary aggregate of the Web3 page is computed over exactly
\* the records that pass all active filters: the incident count, the sum of
\* the losses and the month-bucketed series.
C7_AggregateScope ==
  (Shown /\ view = "web3") =>
    /\ totalIncidents = Len(Filtered)
    /\ totalLosses = sumFundsLost(Filtered)
    /\ lossesOverTimeData = seriesOf(Filtered)

\* The value of the record's sort key.
sortKeyOf(r) ==
  CASE FieldOf(sortConfig.key) = "date" -> r.date
    [] FieldOf(sortConfig.key) = "num" -> [num |-> r.num]
    [] OTHER -> strField(r, sortConfig.key)

\* C8: in the sorted rows of a loaded view two records with the same sort
\* key value keep the relative order they have in the filtered sequence
\* (the order of their ids), for every sort key and both directions.
C8_StableSort ==
  Shown =>
    \A rows \in Sorted :
      \A i, j \in 1..Len(rows) :
        (i < j /\ sortKeyOf(rows[i]) = sortKeyOf(rows[j])) => rows[i].id < rows[j].id

C10_NameTwiceAsStated ==
  /\ nameClicks = 1 => sortConfig = [key |-> "name", direction |-> "asc"]
  /\ nameClicks = 2 => sortConfig = [key |-> "name", direction |-> "desc"]
  /\ nameClicks = 3 => (sortConfig.key # "name" /\ sortConfig.direction = "asc")

\* The view loads sorted by "name" ascending.
loadsByNameAsc == InitialSortConfig(view) = [key |-> "name", direction |-> "asc"]

\* C10: from a freshly loaded view, two clicks on "name" give asc then desc
\* where the view does not load sorted by name ascending, and desc then asc
\* where it does; a following click on another column gives asc on it.
C10_NameTwice ==
  /\ nameClicks = 1 =>
       sortConfig = [key |-> "name",
                     direction |-> IF loadsByNameAsc THEN "desc" ELSE "asc"]
  /\ nameClicks = 2 =>
       sortConfig = [key |-> "name",
                     direction |-> IF loadsByNameAsc THEN "asc" ELSE "desc"]
  /\ nameClicks = 3 => (sortConfig.key # "name" /\ sortConfig.direction = "asc")

\* A view that loads sorted by name ascending, after two clicks on "name"
\* and one on another column.
C10_Witness ==
  /\ loadsByNameAsc
  /\ nameClicks = 3
  /\ currentPage >= 1

\* The label of bucket a is of an earlier month than the label of bucket b.
earlierMonth(a, b) == a.date.y * 12 + a.date.m < b.date.y * 12 + b.date.m

\* C11: the month-bucketed series of the Web3 page is in strictly ascending
\* order of (year, month), so it has one entry per label and is ordered
\* chronologically, whatever the order of the records and whatever the
\* browser makes of the labels.
C11_SeriesChronological ==
  (Shown /\ view = "web3") =>
    \A series \in lossesOverTimeOutcomes :
      \A i, j \in 1..Len(series) : i < j => earlierMonth(series[i], series[j])

\* The number of records of seq that have a funds_lost value.
RECURSIVE valuedCount(_)
valuedCount(seq) ==
  IF seq = <<>> THEN 0
  ELSE (IF IsNullNum(Head(seq).num) THEN 0 ELSE 1) + valuedCount(Tail(seq))

\* C12: the average loss of the Web3 page is the sum of the funds_lost
\* values of the filtered records divided by the number of filtered records
\* that have a value, and 0 when no filtered record has a value.
C12_AverageOverValued ==
  (Shown /\ view = "web3") =>
    LET count == valuedCount(projectFilteredExploits)
    IN  IF count = 0 THEN averageLoss.num = 0
        ELSE averageLoss.num * count =
               sumFundsLost(projectFilteredExploits) * averageLoss.den

\* The inputs of the pipeline: records, Filter State, Sort State and
\* Pagination State.
pipelineInputs == <<records, filterVars, sortConfig, currentPage>>

\* The outputs of the pipeline: the window, the page count and, on the Web3
\* page, the aggregates.
pipelineOutputs ==
  <<PageItems, totalPages,
    IF view = "web3"
    THEN <<totalIncidents, totalLosses, averageLoss, lossesOverTimeOutcomes>>
    ELSE <<>> >>

\* C13: a step that leaves the records and the filter, sort and pagination
\* state as they are leaves pageItems, totalPages and the aggregates as
\* they are: recomputing later gives the same outputs.
C13_PureRecompute ==
  [][pipelineInputs' = pipelineInputs => pipelineOutputs' = pipelineOutputs]_vars

\* C14: after a fetch that failed, by a network error or by a non-2xx
\* response, the record set is empty and no render has thrown.
C14_FailedFetchEmpty ==
  fetchOutcome \in {"rejected", "status"} => (records = <<>> /\ ~crashed)

\* C15: every fetch that has settled, with a feed, with a non-2xx status,
\* with a malformed body or by rejecting, has left loading = false.
C15_LoadingCleared ==
  fetchOutcome # "pending" => ~loading

\* A fetch settled with a non-2xx status on a page that stores the body
\* unchecked, and the loading flag is cleared.
C15_Witness ==
  fetchOutcome = "status" /\ ~ChecksResponse(view) /\ ~loading

\* C16: with a proxy token configured, a request whose x-upstream-token
\* header is missing or differs from the token is answered 401 and is not
\* handed to the origin.
C16_TokenRequired ==
  LET token == proxy.env.UPSTREAM_PROXY_TOKEN
  IN  (/\ proxy.phase # "idle"
       /\ token # NullStr /\ token # EmptyStr
       /\ proxy.request.token # token)
        => (proxy.response = ResponseOf(401) /\ ~Forwarded)

\* A request for a year file with a wrong token, to a proxy that has its
\* origin configured, has been answered 401.
C16_Witness ==
  /\ proxy.phase = "responded"
  /\ proxy.env = [UPSTREAM_PROXY_TOKEN |-> <<"t">>, ORIGIN_BASE_URL |-> <<"o">>]
  /\ proxy.request.token = <<"x">>
  /\ proxy.request.pathname = <<"/", "2", "0", "2", "6", ".", "j", "s", "o", "n">>
  /\ proxy.response = ResponseOf(401)

\* C17 as stated: a request whose path is not exactly /{4 digits}.json is
\* answered 404 and is not handed to the origin.
C17_PathAsStated ==
  LET p == proxy.request.pathname
      exact == /\ Len(p) = 10
               /\ p[1] = "/"
               /\ \A i \in 2..5 : p[i] \in Digits
               /\ SubSeq(p, 6, 10) = <<".", "j", "s", "o", "n">>
  IN  (proxy.phase # "idle" /\ ~exact)
        => (proxy.response = ResponseOf(404) /\ ~Forwarded)

\* C17: a request whose path, without its leading slashes, is not exactly
\* {4 digits}.json is not handed to the origin; it is answered 404, or 401
\* when a token is configured and the request does not carry it.
C17_PathChecked ==
  LET token == proxy.env.UPSTREAM_PROXY_TOKEN
      path == stripLeadingSlashes(proxy.request.pathname)
      yearFile == /\ Len(path) = 9
                  /\ \A i \in 1..4 : path[i] \in Digits
                  /\ SubSeq(path, 5, 9) = <<".", "j", "s", "o", "n">>
      refused == token # NullStr /\ token # EmptyStr /\ proxy.request.token # token
  IN  (proxy.phase # "idle" /\ ~yearFile)
        => /\ ~Forwarded
           /\ proxy.response = ResponseOf(IF refused THEN 401 ELSE 404)

\* A request with the right token for a five-digit file has been answered
\* 404 by a proxy that has its origin configured.
C17_Witness ==
  /\ proxy.phase = "responded"
  /\ proxy.env = [UPSTREAM_PROXY_TOKEN |-> <<"t">>, ORIGIN_BASE_URL |-> <<"o">>]
  /\ proxy.request.token = <<"t">>
  /\ proxy.request.pathname = <<"/", "2", "0", "2", "6", "1", ".", "j", "s", "o", "n">>
  /\ proxy.response = ResponseOf(404)
  /\ ~Forwarded

\* C18 as stated: with no origin base URL configured, a request is answered
\* 500 and no upstream fetch is made.
C18_UnconfiguredAsStated ==
  (proxy.phase # "idle" /\ proxy.env.ORIGIN_BASE_URL \in {NullStr, EmptyStr})
    => (proxy.response = ResponseOf(500) /\ ~Forwarded)

\* C18: with no origin base URL configured, no upstream fetch is made, and
\* a request that passes the token check and the path check is answered
\* 500 (one that fails them 401 or 404).
C18_Unconfigured ==
  LET token == proxy.env.UPSTREAM_PROXY_TOKEN
      path == stripLeadingSlashes(proxy.request.pathname)
      yearFile == /\ Len(path) = 9
                  /\ \A i \in 1..4 : path[i] \in Digits
                  /\ SubSeq(path, 5, 9) = <<".", "j", "s", "o", "n">>
      refused == token # NullStr /\ token # EmptyStr /\ proxy.request.token # token
  IN  (proxy.phase # "idle" /\ proxy.env.ORIGIN_BASE_URL \in {NullStr, EmptyStr})
        => /\ ~Forwarded
           /\ proxy.response =
                ResponseOf(IF refused THEN 401 ELSE IF ~yearFile THEN 404 ELSE 500)

\* A request for a year file with the right token has been answered 500 by
\* a proxy whose origin binding is the empty string.
C18_Witness ==
  /\ proxy.phase = "responded"
  /\ proxy.env = [UPSTREAM_PROXY_TOKEN |-> <<"t">>, ORIGIN_BASE_URL |-> EmptyStr]
  /\ proxy.request.token = <<"t">>
  /\ proxy.request.pathname = <<"/", "2", "0", "2", "6", ".", "j", "s", "o", "n">>
  /\ proxy.response = ResponseOf(500)
  /\ ~Forwarded

\* C19: when the upstream fetch resolved with a non-success status, the
\* proxy's response carries that status.
C19_StatusPassedThrough ==
  (proxy.phase = "responded" /\ proxy.upstream # 0 /\ proxy.upstream \notin 200..299)
    => proxy.response = ResponseOf(proxy.upstream)

\* C20: for the sort key and direction in force, the comparator of a shown
\* view is a total order up to ties on the records: compare(a, a) = 0,
\* compare(a, b) and compare(b, a) have opposite signs or are both 0, and
\* the order is transitive, also for null and unparsable values.
C20_ComparatorTotalOrder ==
  Shown =>
    \A a, b, c \in Range(records) :
      /\ compare(a, a) = 0
      /\ Sign(compare(a, b)) = 0 - Sign(compare(b, a))
      /\ (compare(a, b) <= 0 /\ compare(b, c) <= 0) => compare(a, c) <= 0
      /\ (compare(a, b) < 0 /\ compare(b, c) <= 0) => compare(a, c) < 0
      /\ (compare(a, b) <= 0 /\ compare(b, c) < 0) => compare(a, c) < 0

\* C21: after the user's finitely many page and year changes on the CVE
\* page, with every request answered, the page stops issuing requests and
\* stays with no request outstanding.
C21_FetchesSettle == <>[]CveQuiet

\* C22: once no request of the mounted CVE page is outstanding, the rows
\* shown are the server page of the selected year and the current page
\* number.
C22_RowsOfSelectedYear ==
  (cve.mounted /\ CveQuiet) =>
    cve.cveData = [page |-> cve.currentPage, year |-> cve.selectedYear]

C24_CategoricalEquality ==
  [][/\ (catFilter = InitialCatFilter(view) /\ catFilter' # catFilter) =>
          \A i \in 1..Len(records) :
            (records[i] \in Range(Filtered')) <=>
              (records[i] \in Range(Filtered) /\ records[i].cat = catFilter')
     /\ (tagFilter = All /\ tagFilter' # All) =>
          \A i \in 1..Len(records) :
            (records[i] \in Range(Filtered')) <=>
              (records[i] \in Range(Filtered) /\ records[i].tags = tagFilter')
    ]_vars

\* C25: on the Web3 page every filtered record dated YYYY-MM-DD is counted
\* in the bucket of the month and year its string names, whatever the
\* viewer's time zone.
C25_LocalCalendarDate ==
  (Shown /\ view = "web3") =>
    \A series \in lossesOverTimeOutcomes :
      \A i \in 1..Len(filteredExploits) :
        filteredExploits[i].date.kind = "ymd" =>
          \E k \in 1..Len(series) :
            series[k].date = [y |-> filteredExploits[i].date.y,
                              m |-> filteredExploits[i].date.m]

\* C26: a page whose feed was fetched renders whatever fields its records
\* lack: filtering never throws.
C26_MissingFieldSafe ==
  fetchOutcome = "ok" => ~crashed

C28_FeedsIndependent ==
  HomeLoaded =>
    \A i \in 1..Len(HomeFeeds) :
      home.endpoint[HomeFeeds[i]] = "ok" => HomeFeeds[i] \in home.populated

\* C29: the proxy accepts GET requests only: a request with any other HTTP
\* method is not forwarded to the origin.
C29_OnlyGetForwarded ==
  (proxy.phase # "idle" /\ proxy.request.method # "GET") => ~Forwarded

\* The position of an onboarding step in entry, profile, welcome, complete.
StepRank(step) ==
  CASE step = "entry" -> 0
    [] step = "profile" -> 1
    [] step = "welcome" -> 2
    [] step = "complete" -> 3

\* C30: the onboarding step only moves forward along entry, profile,
\* welcome, complete, one step at a time except for the jump at load; it
\* reaches complete only from the welcome step or, at load, when both a
\* completion flag and a profile are stored; and the completion flag is
\* written to storage only after a profile has been written.
C30_OnboardingForward ==
  [][LET from == home.onboardingStep
         to == home'.onboardingStep
         atLoad == /\ home.awaiting = 0
                   /\ home.storage.hasCompletedOnboarding # NullItem
                   /\ home.storage.userProfile # NullItem
         flagWritten ==
           \E i \in (Len(home.writes) + 1)..Len(home'.writes) :
             home'.writes[i] = "hasCompletedOnboarding"
     IN  /\ StepRank(to) >= StepRank(from)
         /\ to # from =>
              \/ StepRank(to) = StepRank(from) + 1
              \/ to = "complete" /\ atLoad
         /\ (to = "complete" /\ from # "complete") =>
              (from = "welcome" \/ atLoad)
         /\ flagWritten =>
              \E j \in 1..Len(home.writes) : home.writes[j] = "userProfile"
    ]_vars

\* The onboarding has been walked through to its end and the completion
\* flag written after the profile.
C30_Witness ==
  /\ home.onboardingStep = "complete"
  /\ home.writes = <<"userProfile", "userInterest", "hasCompletedOnboarding">>
  /\ home.storage.hasCompletedOnboarding = <<"true">>

====
